---- MODULE Spec2Model ----
(***************************************************************************)
(* Model of django-mellon's DefaultAdapter (src/mellon/adapters.py): the   *)
(* identity resolver lookup_user with its helpers, run by several request  *)
(* threads that share one database; the provisioning engine provision with *)
(* its three sub-steps; the authorization policy authorize.                *)
(*                                                                         *)
(* Every database statement of lookup_user is one atomic step; the code    *)
(* between two statements is folded into the step that ends with the next  *)
(* statement.  Strings are sequences of one-character strings so that      *)
(* slicing ([:30]) and case folding (__iexact) are computed, not assumed.  *)
(* Storage statements are assumed to complete (no lost connection, no      *)
(* constraint error raised out of user.save()).                            *)
(***************************************************************************)
EXTENDS Integers, Sequences, FiniteSets, Bags, TLC

VARIABLES
    users,      \* the auth_user table: id -> row
    links,      \* the UserSAMLIdentifier table: set of rows (issuer, name_id, user)
    nextId,     \* next primary key of auth_user
    settings,   \* what utils.get_setting(idp, NAME) answers
    pc,         \* position of each thread in lookup_user
    bag,        \* saml_attributes of the running call
    name_id,    \* local name_id
    user,       \* local user (0 is None)
    created,    \* local created
    todo,       \* queries _lookup_by_attributes has still to run
    found,      \* local users of _lookup_by_attributes
    result,     \* what the call returns (0 is None)
    pre,        \* history: the tables when the call started
    consulted,  \* history: settings the call has read
    prev,       \* history: the call that returned last, if nothing started since
    repeat,     \* history: the call repeats prev, or is its transient twin
    groupTable, \* the auth_group table: the bag of the names of its rows
    ppc,        \* position of the request in provision
    pobj,       \* the user object handed to provision: its pk and its fields
    pbag,       \* saml_attributes of the running provision call
    targets,    \* local groups of provision_groups
    log,        \* records the running provision call has logged
    saved,      \* history: the sub-steps of the call that ran user.save()
    mutations,  \* history: changes the call has made to the user and its groups
    pstart,     \* history: the user's row when provision was called
    pagain,     \* history: the call repeats the one before it, and how that one ended
    idp,        \* the idp authorize was last called with
    classref,   \* authn_context_class_ref of the bag of that call
    outcome     \* how that call ended

\* the database and the configuration
dbvars == <<users, links, nextId, settings, groupTable>>

\* lookup_user
lvars == <<pc, bag, name_id, user, created, todo, found, result, pre, consulted,
           prev, repeat>>

\* provision
pvars == <<ppc, pobj, pbag, targets, log, saved, mutations, pstart, pagain>>

\* authorize
avars == <<idp, classref, outcome>>

vars == <<users, links, nextId, settings, pc, bag, name_id, user, created,
          todo, found, result, pre, consulted, prev, repeat,
          groupTable, ppc, pobj, pbag, targets, log, saved, mutations, pstart, pagain,
          idp, classref, outcome>>

----------------------------------------------------------------------------
(* Bounds *)

NProcs == 2
MaxIds == 3

Procs == 1..NProcs

----------------------------------------------------------------------------
(* Values *)

NoUser == 0
NoAttr == "None"
Missing == "None"

TRANSIENT == "transient"
PERSISTENT == "persistent"

UsernameMaxLen == 30

Str(c, n) == [i \in 1..n |-> c]
Take(s, n) == SubSeq(s, 1, IF Len(s) < n THEN Len(s) ELSE n)
\* case is not folded
LowerCharSame(c) == c

LowerChar(c) == IF c = "A" THEN "a" ELSE IF c = "B" THEN "b" ELSE c
Lower(s) == [i \in 1..Len(s) |-> LowerChar(s[i])]

Va == <<"a">>
Vb == <<"b">>
VA == <<"A">>
X32 == Str("x", 32)
Yy == <<"y", "y">>
Realm == <<"s", "a", "m", "l">>
Issuer1 == "http://idp5/metadata"

UserFields == {"username", "email", "first_name"}

Placeholder(id) == <<"#", ToString(id)>>

\* groups holds the user's rows of the auth_user_groups table
NewUser(id) == [username |-> Placeholder(id), email |-> <<>>, first_name |-> <<>>,
                is_staff |-> FALSE, is_superuser |-> FALSE, groups |-> <<>>]

----------------------------------------------------------------------------
(* Attribute bags *)

ReservedKeys == {"name_id_format", "name_id_content", "issuer"}

BagKeys(b) == ReservedKeys \cup DOMAIN b.attributes

\* saml_attributes.get(key) is truthy: the key is there with a non-empty list
Truthy(b, key) == key \in DOMAIN b.attributes /\ b.attributes[key] # <<>>

NoAttributes == [k \in {} |-> <<>>]

NoBag == [name_id_format |-> "none", name_id_content |-> <<>>,
          issuer |-> "none", attributes |-> NoAttributes]

EmailValues == {<<>>, <<Va>>, <<VA>>, <<Va, Vb>>}

AttributeSets == {NoAttributes} \cup {[k \in {"email"} |-> v] : v \in EmailValues}

Bags == [name_id_format : {PERSISTENT, TRANSIENT}, name_id_content : {X32, Yy},
         issuer : {Issuer1}, attributes : AttributeSets]

----------------------------------------------------------------------------
(* Settings *)

TplDefault == [wellformed |-> TRUE,
               parts |-> <<[kind |-> "attr", arg |-> "name_id_content"],
                           [kind |-> "lit", arg |-> <<"@">>],
                           [kind |-> "realm", arg |-> <<>>]>>]
TplEmail0 == [wellformed |-> TRUE, parts |-> <<[kind |-> "attr0", arg |-> "email"]>>]
TplMalformed == [wellformed |-> FALSE, parts |-> <<>>]
TplEmpty == [wellformed |-> TRUE, parts |-> <<>>]

Templates == {TplDefault, TplEmail0, TplMalformed, TplEmpty}

Rule(field, attr, icase) ==
    [isdict |-> TRUE, user_field |-> field, saml_attribute |-> attr, ignore_case |-> icase]

NoLookup == [islist |-> TRUE, lines |-> <<>>]
ByUsername == [islist |-> TRUE, lines |-> <<Rule("username", "email", FALSE)>>]
ByUsernameAnyCase == [islist |-> TRUE, lines |-> <<Rule("username", "email", TRUE)>>]
ByEmail == [islist |-> TRUE, lines |-> <<Rule("email", "email", FALSE)>>]

LookupSettings == {NoLookup, ByUsername, ByUsernameAnyCase, ByEmail}

\* defective LOOKUP_BY_ATTRIBUTES: 'coin', ['coin'], [{}], a field the user
\* model does not have, [{'user_field': 'username'}]
NotAList == [islist |-> FALSE, lines |-> <<>>]
NotADict == [isdict |-> FALSE, user_field |-> Missing, saml_attribute |-> Missing,
             ignore_case |-> FALSE]
NoUserField == Rule(Missing, "email", FALSE)
UnknownUserField == Rule("nickname", "email", FALSE)
NoSamlAttribute == Rule("username", Missing, FALSE)

Rules == {Rule("username", "email", FALSE), Rule("email", "email", FALSE),
          NotADict, NoUserField, UnknownUserField, NoSamlAttribute}

MaxRules == 3

RuleLists ==
    {NotAList} \cup
    {[islist |-> TRUE, lines |-> l] : l \in UNION {[1..n -> Rules] : n \in 0..MaxRules}}

AllSettings == [PROVISION : BOOLEAN,
                TRANSIENT_FEDERATION_ATTRIBUTE : {NoAttr, "email"},
                LOOKUP_BY_ATTRIBUTES : LookupSettings,
                USERNAME_TEMPLATE : Templates,
                REALM : {Realm}]

----------------------------------------------------------------------------
(* format_username *)

PartRaises(part, b) ==
    CASE part.kind = "attr" -> part.arg \notin BagKeys(b)
      [] part.kind = "attr0" -> ~Truthy(b, part.arg)
      [] OTHER -> FALSE

PartText(part, b, realm) ==
    CASE part.kind = "attr" -> b[part.arg]
      [] part.kind = "attr0" -> b.attributes[part.arg][1]
      [] part.kind = "realm" -> realm
      [] OTHER -> part.arg

RECURSIVE Format(_, _, _)
Format(parts, b, realm) ==
    IF parts = <<>> THEN <<>>
    ELSE PartText(Head(parts), b, realm) \o Format(Tail(parts), b, realm)

FormatRaises(tpl, b) ==
    ~tpl.wellformed \/ \E i \in 1..Len(tpl.parts) : PartRaises(tpl.parts[i], b)

\* the slice of line 117 is left out
format_username_whole(cfg, b) ==
    IF FormatRaises(cfg.USERNAME_TEMPLATE, b)
    THEN [none |-> TRUE, text |-> <<>>]
    ELSE [none |-> FALSE, text |-> Format(cfg.USERNAME_TEMPLATE.parts, b, cfg.REALM)]

\* [none |-> TRUE] is the None the except branches fall through to
format_username(cfg, b) ==
    IF FormatRaises(cfg.USERNAME_TEMPLATE, b)
    THEN [none |-> TRUE, text |-> <<>>]
    ELSE [none |-> FALSE,
          text |-> Take(Format(cfg.USERNAME_TEMPLATE.parts, b, cfg.REALM), UsernameMaxLen)]

\* an empty username is taken for a username
UserCreationErrorNoneOnly(cfg, b) == format_username(cfg, b).none

\* finish_create_user raises UserCreationError
UserCreationError(cfg, b) ==
    format_username(cfg, b).none \/ format_username(cfg, b).text = <<>>

----------------------------------------------------------------------------
(* The two tables *)

\* the query for the link misses every row
LinkedUsersNone(us, ls, issuer, nid) == {}

\* User.objects.get(saml_identifiers__name_id=..., saml_identifiers__issuer=...)
LinkedUsers(us, ls, issuer, nid) ==
    {u \in DOMAIN us : \E l \in ls : l.issuer = issuer /\ l.name_id = nid /\ l.user = u}

\* the rows of a deleted user stay
CascadeLinksNone(ls, u) == ls

\* rows of UserSAMLIdentifier go with their user (ForeignKey, on_delete CASCADE)
CascadeLinks(ls, u) == {l \in ls : l.user # u}

\* the row stays
DeleteUserKept(us, u) == us

\* user.delete()
DeleteUser(us, u) == [i \in DOMAIN us \ {u} |-> us[i]]

\* user.save() writes the in-memory object under its primary key
SaveUser(us, u, row) == [i \in DOMAIN us \cup {u} |-> IF i = u THEN row ELSE us[i]]

\* User.objects.create(username=uuid.uuid4().hex[:30])
create_user(us, id) == SaveUser(us, id, NewUser(id))

\* models.UserSAMLIdentifier.objects.get_or_create(name_id, issuer, defaults={'user': user})
LinkRows(ls, issuer, nid) == {l \in ls : l.issuer = issuer /\ l.name_id = nid}

\* the row is never written
LinkUserTableLost(ls, issuer, nid, u) == ls

\* the row is written without looking for an earlier one
LinkUserTableBlind(ls, issuer, nid, u) ==
    ls \cup {[issuer |-> issuer, name_id |-> nid, user |-> u]}

\* an earlier row is given the caller's user
LinkUserTableRetarget(ls, issuer, nid, u) ==
    (ls \ LinkRows(ls, issuer, nid)) \cup {[issuer |-> issuer, name_id |-> nid, user |-> u]}

\* the call keeps its own user whatever the table holds
LinkUserResultOwn(ls, issuer, nid, u) == u

\* _link_user: the table after the call, and the user it returns
LinkUserTable(ls, issuer, nid, u) ==
    IF LinkRows(ls, issuer, nid) = {}
    THEN ls \cup {[issuer |-> issuer, name_id |-> nid, user |-> u]}
    ELSE ls

LinkUserResult(ls, issuer, nid, u) ==
    IF LinkRows(ls, issuer, nid) = {}
    THEN u
    ELSE (CHOOSE l \in LinkRows(ls, issuer, nid) : TRUE).user

----------------------------------------------------------------------------
(* _lookup_by_attributes *)

\* the continue statements of lines 205-226
RuleSkipped(line, b) ==
    \/ ~line.isdict
    \/ line.user_field = Missing
    \/ line.user_field \notin UserFields
    \/ line.saml_attribute = Missing
    \/ ~Truthy(b, line.saml_attribute)

\* one filter() per value of the rule's attribute
RuleQueries(line, b) ==
    IF RuleSkipped(line, b) THEN <<>>
    ELSE [i \in 1..Len(b.attributes[line.saml_attribute]) |->
             [field |-> line.user_field,
              value |-> b.attributes[line.saml_attribute][i],
              ignore_case |-> line.ignore_case]]

\* the first rule that gives no query ends the loop
RECURSIVE AllQueriesBreak(_, _)
AllQueriesBreak(lines, b) ==
    IF lines = <<>> THEN <<>>
    ELSE IF RuleQueries(Head(lines), b) = <<>> THEN <<>>
    ELSE RuleQueries(Head(lines), b) \o AllQueriesBreak(Tail(lines), b)

RECURSIVE AllQueries(_, _)
AllQueries(lines, b) ==
    IF lines = <<>> THEN <<>>
    ELSE RuleQueries(Head(lines), b) \o AllQueries(Tail(lines), b)

\* a non-list setting returns None at once (line 199)
LookupQueries(lba, b) == IF lba.islist THEN AllQueries(lba.lines, b) ELSE <<>>

\* if lookup_by_attributes: (line 169)
LookupConfigured(lba) == ~lba.islist \/ lba.lines # <<>>

\* the filter forgets saml_identifiers__isnull=True
UsersFoundLinkedToo(us, ls, q) ==
    {u \in DOMAIN us :
        IF q.ignore_case
        THEN Lower(us[u][q.field]) = Lower(q.value)
        ELSE us[u][q.field] = q.value}

\* filter(saml_identifiers__isnull=True, **{key: value})
UsersFound(us, ls, q) ==
    {u \in DOMAIN us :
        /\ \A l \in ls : l.user # u
        /\ IF q.ignore_case
           THEN Lower(us[u][q.field]) = Lower(q.value)
           ELSE us[u][q.field] = q.value}

\* lines 241-249
Candidate(fs) == IF Cardinality(fs) = 1 THEN CHOOSE u \in fs : TRUE ELSE NoUser

----------------------------------------------------------------------------
(* lookup_user *)

\* a multi-valued federation attribute is accepted
NameIdFoundAnyLength(cfg, b) ==
    IF b.name_id_format = TRANSIENT
    THEN /\ cfg.TRANSIENT_FEDERATION_ATTRIBUTE # NoAttr
         /\ Truthy(b, cfg.TRANSIENT_FEDERATION_ATTRIBUTE)
    ELSE TRUE

\* lines 141-155: is there a linking key at all
NameIdFound(cfg, b) ==
    IF b.name_id_format = TRANSIENT
    THEN /\ cfg.TRANSIENT_FEDERATION_ATTRIBUTE # NoAttr
         /\ Truthy(b, cfg.TRANSIENT_FEDERATION_ATTRIBUTE)
         /\ Len(b.attributes[cfg.TRANSIENT_FEDERATION_ATTRIBUTE]) = 1
    ELSE TRUE

\* the federation attribute is ignored
NameIdContent(cfg, b) == b.name_id_content

\* lines 141-155: the linking key
NameId(cfg, b) ==
    IF b.name_id_format = TRANSIENT
    THEN b.attributes[cfg.TRANSIENT_FEDERATION_ATTRIBUTE][1]
    ELSE b.name_id_content

\* PROVISION is not tested before a user is created
AfterLookupNoTest(fs, read) ==
    IF Candidate(fs) # NoUser
    THEN [pc |-> "link", user |-> Candidate(fs), consulted |-> read]
    ELSE [pc |-> "create", user |-> NoUser, consulted |-> read \cup {"PROVISION"}]

\* PROVISION is tested before the candidate is looked at
AfterLookupTestFirst(fs, read) ==
    IF ~settings.PROVISION
    THEN [pc |-> "done", user |-> NoUser, consulted |-> read \cup {"PROVISION"}]
    ELSE IF Candidate(fs) # NoUser
    THEN [pc |-> "link", user |-> Candidate(fs), consulted |-> read \cup {"PROVISION"}]
    ELSE [pc |-> "create", user |-> NoUser, consulted |-> read \cup {"PROVISION"}]

\* lines 172-178, once _lookup_by_attributes has returned
AfterLookup(fs, read) ==
    IF Candidate(fs) # NoUser
    THEN [pc |-> "link", user |-> Candidate(fs), consulted |-> read]
    ELSE IF ~settings.PROVISION
    THEN [pc |-> "done", user |-> NoUser, consulted |-> read \cup {"PROVISION"}]
    ELSE [pc |-> "create", user |-> NoUser, consulted |-> read \cup {"PROVISION"}]

NoPrev == [valid |-> FALSE, bag |-> NoBag, result |-> NoUser]
NoRepeat == [valid |-> FALSE, same |-> FALSE, twin |-> FALSE, result |-> NoUser]
NoPre == [users |-> <<>>, links |-> {}, nextId |-> 0]

\* two transient logins of one federated identity under two name identifiers
TransientTwins(cfg, b1, b2) ==
    /\ b1.name_id_format = TRANSIENT /\ b2.name_id_format = TRANSIENT
    /\ b1.issuer = b2.issuer
    /\ b1.name_id_content # b2.name_id_content
    /\ NameIdFound(cfg, b1) /\ NameIdFound(cfg, b2)
    /\ b1.attributes[cfg.TRANSIENT_FEDERATION_ATTRIBUTE]
         = b2.attributes[cfg.TRANSIENT_FEDERATION_ATTRIBUTE]

\* lines 139-171: derive the key, look the link up, prepare the attribute lookup
LookupUser(p, b) ==
    /\ pc[p] = "idle"
    /\ bag' = [bag EXCEPT ![p] = b]
    /\ pre' = [pre EXCEPT ![p] = [users |-> users, links |-> links, nextId |-> nextId]]
    /\ repeat' = [repeat EXCEPT ![p] =
                     IF prev.valid /\ (prev.bag = b \/ TransientTwins(settings, prev.bag, b))
                     THEN [valid |-> TRUE, same |-> prev.bag = b,
                           twin |-> TransientTwins(settings, prev.bag, b),
                           result |-> prev.result]
                     ELSE NoRepeat]
    /\ prev' = NoPrev
    /\ LET tfa == {"TRANSIENT_FEDERATION_ATTRIBUTE"}
           lba == settings.LOOKUP_BY_ATTRIBUTES
           nid == NameId(settings, b)
           qs == IF LookupConfigured(lba) THEN LookupQueries(lba, b) ELSE <<>>
           out == IF ~NameIdFound(settings, b)
                  THEN [pc |-> "done", name_id |-> <<>>, todo |-> <<>>,
                        user |-> NoUser, result |-> NoUser, consulted |-> tfa]
                  ELSE IF LinkedUsers(users, links, b.issuer, nid) # {}
                  THEN [pc |-> "done", name_id |-> nid, todo |-> <<>>, user |-> NoUser,
                        result |-> CHOOSE u \in LinkedUsers(users, links, b.issuer, nid) : TRUE,
                        consulted |-> tfa]
                  ELSE IF qs # <<>>
                  THEN [pc |-> "attrs", name_id |-> nid, todo |-> qs, user |-> NoUser,
                        result |-> NoUser, consulted |-> tfa \cup {"LOOKUP_BY_ATTRIBUTES"}]
                  ELSE LET nxt == AfterLookup({}, tfa \cup {"LOOKUP_BY_ATTRIBUTES"})
                       IN [pc |-> nxt.pc, name_id |-> nid, todo |-> <<>>, user |-> nxt.user,
                           result |-> NoUser, consulted |-> nxt.consulted]
       IN /\ pc' = [pc EXCEPT ![p] = out.pc]
          /\ name_id' = [name_id EXCEPT ![p] = out.name_id]
          /\ todo' = [todo EXCEPT ![p] = out.todo]
          /\ user' = [user EXCEPT ![p] = out.user]
          /\ result' = [result EXCEPT ![p] = out.result]
          /\ consulted' = [consulted EXCEPT ![p] = out.consulted]
    /\ UNCHANGED <<users, links, nextId, settings, created, found>>
    /\ UNCHANGED <<groupTable, pvars, avars>>

\* lines 228-240: one filter(); after the last one, lines 241-249 and 172-178
AttrQuery(p) ==
    /\ pc[p] = "attrs"
    /\ LET fs == found[p] \cup UsersFound(users, links, Head(todo[p]))
           nxt == AfterLookup(fs, consulted[p])
       IN /\ found' = [found EXCEPT ![p] = fs]
          /\ todo' = [todo EXCEPT ![p] = Tail(todo[p])]
          /\ IF Tail(todo[p]) # <<>>
             THEN UNCHANGED <<pc, user, consulted>>
             ELSE /\ pc' = [pc EXCEPT ![p] = nxt.pc]
                  /\ user' = [user EXCEPT ![p] = nxt.user]
                  /\ consulted' = [consulted EXCEPT ![p] = nxt.consulted]
    /\ UNCHANGED <<users, links, nextId, settings, bag, name_id, created, result,
                   pre, prev, repeat>>
    /\ UNCHANGED <<groupTable, pvars, avars>>

\* lines 177-178
CreateUser(p) ==
    /\ pc[p] = "create"
    /\ nextId <= MaxIds
    /\ users' = create_user(users, nextId)
    /\ nextId' = nextId + 1
    /\ user' = [user EXCEPT ![p] = nextId]
    /\ created' = [created EXCEPT ![p] = TRUE]
    /\ pc' = [pc EXCEPT ![p] = "link"]
    /\ UNCHANGED <<links, settings, bag, name_id, todo, found, result,
                   pre, consulted, prev, repeat>>
    /\ UNCHANGED <<groupTable, pvars, avars>>

\* the test of line 184 is left out: the call deletes whatever user it held
LinkUserDiscardsAny(p) ==
    /\ pc[p] = "link"
    /\ LET nameid_user == LinkUserResult(links, bag[p].issuer, name_id[p], user[p])
       IN /\ links' = LinkUserTable(links, bag[p].issuer, name_id[p], user[p])
          /\ pc' = [pc EXCEPT ![p] =
                       IF user[p] # nameid_user THEN "discard"
                       ELSE IF created[p] THEN "finish" ELSE "done"]
          /\ result' = [result EXCEPT ![p] =
                           IF user[p] # nameid_user \/ ~created[p]
                           THEN nameid_user ELSE NoUser]
    /\ UNCHANGED <<users, nextId, settings, bag, name_id, user, created, todo, found,
                   pre, consulted, prev, repeat>>
    /\ UNCHANGED <<groupTable, pvars, avars>>

\* lines 180-188 and 251-257
LinkUser(p) ==
    /\ pc[p] = "link"
    /\ LET nameid_user == LinkUserResult(links, bag[p].issuer, name_id[p], user[p])
       IN /\ links' = LinkUserTable(links, bag[p].issuer, name_id[p], user[p])
          /\ IF created[p]
             THEN /\ pc' = [pc EXCEPT ![p] =
                               IF user[p] # nameid_user THEN "discard" ELSE "finish"]
                  /\ result' = [result EXCEPT ![p] =
                                   IF user[p] # nameid_user THEN nameid_user ELSE NoUser]
             ELSE /\ pc' = [pc EXCEPT ![p] = "done"]
                  /\ result' = [result EXCEPT ![p] = nameid_user]
    /\ UNCHANGED <<users, nextId, settings, bag, name_id, user, created, todo, found,
                   pre, consulted, prev, repeat>>
    /\ UNCHANGED <<groupTable, pvars, avars>>

\* lines 184-186: the call lost the link, its own user goes
DiscardUser(p) ==
    /\ pc[p] = "discard"
    /\ users' = DeleteUser(users, user[p])
    /\ links' = CascadeLinks(links, user[p])
    /\ pc' = [pc EXCEPT ![p] = "done"]
    /\ UNCHANGED <<nextId, settings, bag, name_id, user, created, todo, found, result,
                   pre, consulted, prev, repeat>>
    /\ UNCHANGED <<groupTable, pvars, avars>>

\* lines 188-196 and 131-137
FinishCreateUser(p) ==
    /\ pc[p] = "finish"
    /\ consulted' = [consulted EXCEPT ![p] = @ \cup {"REALM", "USERNAME_TEMPLATE"}]
    /\ IF UserCreationError(settings, bag[p])
       THEN /\ users' = DeleteUser(users, user[p])
            /\ links' = CascadeLinks(links, user[p])
            /\ result' = [result EXCEPT ![p] = NoUser]
       ELSE /\ users' = SaveUser(users, user[p],
                           [NewUser(user[p]) EXCEPT
                               !.username = format_username(settings, bag[p]).text])
            /\ links' = links
            /\ result' = [result EXCEPT ![p] = user[p]]
    /\ pc' = [pc EXCEPT ![p] = "done"]
    /\ UNCHANGED <<nextId, settings, bag, name_id, user, created, todo, found,
                   pre, prev, repeat>>
    /\ UNCHANGED <<groupTable, pvars, avars>>

\* the call hands its result to the caller
Return(p) ==
    /\ pc[p] = "done"
    /\ prev' = [valid |-> TRUE, bag |-> bag[p], result |-> result[p]]
    /\ pc' = [pc EXCEPT ![p] = "idle"]
    /\ bag' = [bag EXCEPT ![p] = NoBag]
    /\ name_id' = [name_id EXCEPT ![p] = <<>>]
    /\ user' = [user EXCEPT ![p] = NoUser]
    /\ created' = [created EXCEPT ![p] = FALSE]
    /\ todo' = [todo EXCEPT ![p] = <<>>]
    /\ found' = [found EXCEPT ![p] = {}]
    /\ result' = [result EXCEPT ![p] = NoUser]
    /\ pre' = [pre EXCEPT ![p] = NoPre]
    /\ consulted' = [consulted EXCEPT ![p] = {}]
    /\ repeat' = [repeat EXCEPT ![p] = NoRepeat]
    /\ UNCHANGED <<users, links, nextId, settings>>
    /\ UNCHANGED <<groupTable, pvars, avars>>

----------------------------------------------------------------------------
(* provision: values and settings *)

FirstNameMaxLen == 30

Y32 == Str("y", 32)
VTrue == <<"t", "r", "u", "e">>
VFalse == <<"n", "o">>
GroupA == <<"G", "A">>
GroupB == <<"G", "B">>
GroupC == <<"G", "C">>
GroupD == <<"G", "D">>

\* a name User._meta.get_field does not know
Nickname == "nickname"

TplFirstName0 == [wellformed |-> TRUE, parts |-> <<[kind |-> "attr0", arg |-> "first_name"]>>]

Mapped(field, tpl) == [field |-> field, tpl |-> tpl]

\* ATTRIBUTE_MAPPING: a dict, field -> template
NoMapping == {}
MapBoth == {Mapped("email", TplEmail0), Mapped("first_name", TplFirstName0)}
MapBadTemplate == {Mapped("email", TplMalformed), Mapped("first_name", TplFirstName0)}
MapNoField == {Mapped(Nickname, TplEmail0), Mapped("first_name", TplFirstName0)}

AttributeMappings == {NoMapping, MapBoth, MapBadTemplate, MapNoField}

\* SUPERUSER_MAPPING: unset, or a dict, attribute -> one value or a list of values
Accepts(key, islist, values) == [key |-> key, islist |-> islist, values |-> values]

SuperUnset == [given |-> FALSE, entries |-> {}]
SuperEmpty == [given |-> TRUE, entries |-> {}]
SuperOne == [given |-> TRUE, entries |-> {Accepts("is_superuser", FALSE, VTrue)}]
SuperTwo == [given |-> TRUE, entries |-> {Accepts("is_superuser", FALSE, VTrue),
                                          Accepts("email", TRUE, <<VA, Va>>)}]

SuperuserMappings == {SuperUnset, SuperEmpty, SuperOne, SuperTwo}

ProvSettings == [REALM : {Realm},
                 ATTRIBUTE_MAPPING : AttributeMappings,
                 SUPERUSER_MAPPING : SuperuserMappings,
                 GROUP_ATTRIBUTE : {NoAttr, "group"},
                 CREATE_GROUP : BOOLEAN]

\* the orders a dict of these entries can be iterated in
Orders(S) ==
    {o \in [1..Cardinality(S) -> S] : \A x \in S : \E i \in 1..Cardinality(S) : o[i] = x}

\* saml_attributes[key] as a set, a single value taken for a list of one
ValueSet(b, key) ==
    IF key \in ReservedKeys THEN {b[key]}
    ELSE {b.attributes[key][i] : i \in 1..Len(b.attributes[key])}

Record(kind, what) == SetToBag({[kind |-> kind, what |-> what]})

----------------------------------------------------------------------------
(* provision_attribute *)

\* the target field's max_length: 30 for first_name; the limit of email lies
\* above every value of the model
Bounded(field) == field = "first_name"

\* the slice of line 279 is left out
TruncateNever(field, value) == value

\* value[:model_field.max_length]
Truncate(field, value) == IF Bounded(field) THEN Take(value, FirstNameMaxLen) ELSE value

\* lines 268-285, the entries in the order of iteration; acc carries the user
\* object, attribute_set, the log, and whether get_field has raised
RECURSIVE AttributeLoop(_, _, _, _)
AttributeLoop(entries, cfg, b, acc) ==
    IF entries = <<>> \/ acc.raised THEN acc
    ELSE LET e == Head(entries)
             value == Truncate(e.field, Format(e.tpl.parts, b, cfg.REALM))
             step == IF FormatRaises(e.tpl, b)
                     THEN [acc EXCEPT !.log = @ (+) Record("invalid template", e.field)]
                     ELSE IF e.field \notin UserFields
                     THEN [acc EXCEPT !.raised = TRUE]
                     ELSE IF acc.obj[e.field] # value
                     THEN [acc EXCEPT !.obj = [@ EXCEPT ![e.field] = value],
                                      !.set = TRUE,
                                      !.log = @ (+) Record("set field", e.field)]
                     ELSE acc
         IN AttributeLoop(Tail(entries), cfg, b, step)

provision_attribute(obj, cfg, b, order) ==
    AttributeLoop(order, cfg, b,
                  [obj |-> obj, set |-> FALSE, log |-> EmptyBag, raised |-> FALSE])

----------------------------------------------------------------------------
(* provision_superuser *)

\* lines 296-298
AcceptedSet(e) == IF e.islist THEN {e.values[i] : i \in 1..Len(e.values)} ELSE {e.values}

\* lines 295-303: the entry's attribute is in the bag with an accepted value
EntryMatches(e, b) == e.key \in BagKeys(b) /\ ValueSet(b, e.key) \cap AcceptedSet(e) # {}

\* only the first entry of the iteration is looked at
SuperuserMatchFirstOnly(entries, b) == entries # <<>> /\ EntryMatches(Head(entries), b)

\* lines 294-309: the loop ends with break
RECURSIVE SuperuserMatch(_, _)
SuperuserMatch(entries, b) ==
    IF entries = <<>> THEN FALSE
    ELSE EntryMatches(Head(entries), b) \/ SuperuserMatch(Tail(entries), b)

\* the test of line 291 is left out
SuperuserConfiguredAlways(mapping) == TRUE

\* line 291
SuperuserConfigured(mapping) == mapping.given /\ mapping.entries # {}

\* lines 293-315
provision_superuser(obj, b, order) ==
    IF SuperuserMatch(order, b)
    THEN IF ~(obj.is_staff /\ obj.is_superuser)
         THEN [obj |-> [obj EXCEPT !.is_staff = TRUE, !.is_superuser = TRUE], set |-> TRUE,
               log |-> Record("flags added", "is_staff and is_superuser")]
         ELSE [obj |-> obj, set |-> FALSE, log |-> EmptyBag]
    ELSE IF obj.is_superuser \/ obj.is_staff
         THEN [obj |-> [obj EXCEPT !.is_staff = FALSE, !.is_superuser = FALSE], set |-> TRUE,
               log |-> Record("flags removed", "is_staff and is_superuser")]
         ELSE [obj |-> obj, set |-> FALSE, log |-> EmptyBag]

----------------------------------------------------------------------------
(* provision_groups *)

\* line 322
GroupsClaimed(cfg, b) == cfg.GROUP_ATTRIBUTE \in BagKeys(b)

\* lines 327-335: the groups the values resolve to
TargetGroups(cfg, b, table) ==
    IF cfg.CREATE_GROUP THEN ValueSet(b, cfg.GROUP_ATTRIBUTE)
    ELSE ValueSet(b, cfg.GROUP_ATTRIBUTE) \cap BagToSet(table)

\* a row is inserted for every value, whatever the table holds
GroupsAfterCreate(cfg, b, table) ==
    IF cfg.CREATE_GROUP
    THEN table (+) SetToBag(ValueSet(b, cfg.GROUP_ATTRIBUTE))
    ELSE table

\* lines 327-329: Group.objects.get_or_create(name=value) for value in set(values)
GroupsAfter(cfg, b, table) ==
    IF cfg.CREATE_GROUP
    THEN table (+) SetToBag({v \in ValueSet(b, cfg.GROUP_ATTRIBUTE) : ~BagIn(v, table)})
    ELSE table

\* exclude(user=user) is left out
GroupsToAddAll(rows, groups) == groups

\* line 336: Group.objects.filter(pk__in=...).exclude(user=user)
GroupsToAdd(rows, groups) == {g \in groups : ~BagIn(g, rows)}

\* line 339: User.groups.through.objects.get_or_create(group=group, user=user),
\* once for every group of the loop
RowsAdded(rows, toadd) == rows (+) SetToBag({g \in toadd : ~BagIn(g, rows)})

\* nothing is ever removed
RowsToRemoveNone(rows, groups) == {}

\* lines 340-341: the user's rows for groups outside the list
RowsToRemove(rows, groups) == {g \in BagToSet(rows) : g \notin groups}

\* line 345: qs.delete()
RowsRemoved(rows, gone) == [g \in BagToSet(rows) \ gone |-> rows[g]]

\* one record per element of a loop
Records(kind, things) == SetToBag({[kind |-> kind, what |-> t] : t \in things})

----------------------------------------------------------------------------
(* provision: the steps of one call *)

\* user.save() writes the columns of auth_user; the rows of auth_user_groups
\* are not part of the object
SaveFields(us, u, row) == SaveUser(us, u, [row EXCEPT !.groups = us[u].groups])

NoObject == [pk |-> NoUser, row |-> NewUser(NoUser)]
NoSaves == [attribute |-> FALSE, superuser |-> FALSE]

\* the fields of two user objects that differ
FieldsChanged(old, new) == {f \in UserFields : old[f] # new[f]}

\* the backend hands a resolved user to provision (line 259)
ProvisionStart(u, b) ==
    /\ ppc = "idle"
    /\ u \in DOMAIN users
    /\ ppc' = "attribute"
    /\ pobj' = [pk |-> u, row |-> users[u]]
    /\ pbag' = b
    /\ pstart' = users[u]
    /\ pagain' = "no"
    /\ log' = EmptyBag
    /\ saved' = NoSaves
    /\ mutations' = 0
    /\ targets' = {}
    /\ UNCHANGED <<dbvars, lvars, avars>>

\* lines 264-287; FieldDoesNotExist leaves provision at line 277
ProvisionAttribute ==
    /\ ppc = "attribute"
    /\ \E order \in Orders(settings.ATTRIBUTE_MAPPING) :
          LET out == provision_attribute(pobj.row, settings, pbag, order)
          IN /\ pobj' = [pobj EXCEPT !.row = out.obj]
             /\ log' = log (+) out.log
             /\ mutations' = mutations + Cardinality(FieldsChanged(pobj.row, out.obj))
             /\ IF out.raised
                THEN /\ ppc' = "raised"
                     /\ UNCHANGED <<users, saved>>
                ELSE /\ ppc' = "superuser"
                     /\ users' = IF out.set THEN SaveFields(users, pobj.pk, out.obj) ELSE users
                     /\ saved' = [saved EXCEPT !.attribute = out.set]
    /\ UNCHANGED <<links, nextId, settings, groupTable, pbag, targets, pstart, pagain, lvars, avars>>

\* lines 289-317
ProvisionSuperuser ==
    /\ ppc = "superuser"
    /\ ppc' = "groups"
    /\ IF ~SuperuserConfigured(settings.SUPERUSER_MAPPING)
       THEN UNCHANGED <<users, pobj, log, saved, mutations>>
       ELSE \E order \in Orders(settings.SUPERUSER_MAPPING.entries) :
               LET out == provision_superuser(pobj.row, pbag, order)
               IN /\ pobj' = [pobj EXCEPT !.row = out.obj]
                  /\ log' = log (+) out.log
                  /\ mutations' = mutations +
                        (IF <<out.obj.is_staff, out.obj.is_superuser>>
                              # <<pobj.row.is_staff, pobj.row.is_superuser>> THEN 1 ELSE 0)
                  /\ users' = IF out.set THEN SaveFields(users, pobj.pk, out.obj) ELSE users
                  /\ saved' = [saved EXCEPT !.superuser = out.set]
    /\ UNCHANGED <<links, nextId, settings, groupTable, pbag, targets, pstart, pagain, lvars, avars>>

\* a bag without the attribute is taken for a bag that claims no group
ProvisionGroupsUnguarded ==
    /\ ppc = "groups"
    /\ targets' = IF GroupsClaimed(settings, pbag)
                  THEN TargetGroups(settings, pbag, groupTable) ELSE {}
    /\ groupTable' = IF GroupsClaimed(settings, pbag)
                     THEN GroupsAfter(settings, pbag, groupTable) ELSE groupTable
    /\ ppc' = "add"
    /\ UNCHANGED <<users, links, nextId, settings, pobj, pbag, log, saved, mutations,
                   pstart, pagain, lvars, avars>>

\* lines 319-335
ProvisionGroups ==
    /\ ppc = "groups"
    /\ IF GroupsClaimed(settings, pbag)
       THEN /\ targets' = TargetGroups(settings, pbag, groupTable)
            /\ groupTable' = GroupsAfter(settings, pbag, groupTable)
            /\ ppc' = "add"
       ELSE /\ ppc' = "done"
            /\ UNCHANGED <<targets, groupTable>>
    /\ UNCHANGED <<users, links, nextId, settings, pobj, pbag, log, saved, mutations,
                   pstart, pagain, lvars, avars>>

\* lines 336-339
AddGroups ==
    /\ ppc = "add"
    /\ ppc' = "remove"
    /\ LET rows == users[pobj.pk].groups
           toadd == GroupsToAdd(rows, targets)
           after == RowsAdded(rows, toadd)
       IN /\ log' = log (+) Records("adding group", toadd)
          /\ users' = [users EXCEPT ![pobj.pk].groups = after]
          /\ mutations' = mutations + (BagCardinality(after) - BagCardinality(rows))
    /\ UNCHANGED <<links, nextId, settings, groupTable, pobj, pbag, targets, saved,
                   pstart, pagain, lvars, avars>>

\* lines 340-345
RemoveGroups ==
    /\ ppc = "remove"
    /\ ppc' = "done"
    /\ LET rows == users[pobj.pk].groups
           gone == RowsToRemove(rows, targets)
           after == RowsRemoved(rows, gone)
       IN /\ log' = log (+) Records("removing group", gone)
          /\ users' = [users EXCEPT ![pobj.pk].groups = after]
          /\ mutations' = mutations + (BagCardinality(rows) - BagCardinality(after))
    /\ UNCHANGED <<links, nextId, settings, groupTable, pobj, pbag, targets, saved,
                   pstart, pagain, lvars, avars>>

\* provision has returned, or FieldDoesNotExist has reached its caller
ProvisionReturn ==
    /\ ppc \in {"done", "raised"}
    /\ ppc' = "idle"
    /\ pobj' = NoObject
    /\ pbag' = NoBag
    /\ pstart' = NewUser(NoUser)
    /\ pagain' = "no"
    /\ log' = EmptyBag
    /\ saved' = NoSaves
    /\ mutations' = 0
    /\ targets' = {}
    /\ UNCHANGED <<dbvars, lvars, avars>>

\* the next login resolves the same user with the same bag: provision is
\* called again with the user as the table has it
ProvisionAgain ==
    /\ ppc \in {"done", "raised"}
    /\ ppc' = "attribute"
    /\ pobj' = [pk |-> pobj.pk, row |-> users[pobj.pk]]
    /\ pstart' = users[pobj.pk]
    /\ pagain' = IF ppc = "done" THEN "returned" ELSE "raised"
    /\ log' = EmptyBag
    /\ saved' = NoSaves
    /\ mutations' = 0
    /\ targets' = {}
    /\ UNCHANGED <<dbvars, pbag, lvars, avars>>

----------------------------------------------------------------------------
(* authorize *)

IdpNone == "None"
IdpEmpty == "{}"
Idp5 == "idp5"

\* authn_context_class_ref as views.py sets it: () or the reference; None
\* for a bag built elsewhere
ClassrefNone == "None"
ClassrefUnset == "()"

\* the test of line 107 for None only
authorizeNoneOnly(i, cfg, given) ==
    IF i \in {IdpNone, IdpEmpty} THEN "False"
    ELSE IF cfg.AUTHN_CLASSREF # {} /\ given = ClassrefNone
    THEN "PermissionDenied"
    ELSE "True"

\* a missing idp raises
authorizeRaises(i, cfg, given) ==
    IF i \in {IdpNone, IdpEmpty} THEN "PermissionDenied"
    ELSE IF cfg.AUTHN_CLASSREF # {}
            /\ (given = ClassrefNone \/ given \notin cfg.AUTHN_CLASSREF)
    THEN "PermissionDenied"
    ELSE "True"

\* lines 101-110: what the call returns, or the exception it raises
authorize(i, cfg, given) ==
    IF i \in {IdpNone, IdpEmpty} THEN "False"
    ELSE IF cfg.AUTHN_CLASSREF # {}
            /\ (given = ClassrefNone \/ given \notin cfg.AUTHN_CLASSREF)
    THEN "PermissionDenied"
    ELSE "True"

Authorize(i, given) ==
    /\ idp' = i
    /\ classref' = given
    /\ outcome' = authorize(i, settings, given)
    /\ UNCHANGED <<dbvars, lvars, pvars>>

----------------------------------------------------------------------------
(* Specifications *)

John == [username |-> Va, email |-> Vb, first_name |-> <<>>,
         is_staff |-> FALSE, is_superuser |-> FALSE, groups |-> <<>>]
Jane == [username |-> Vb, email |-> Vb, first_name |-> <<>>,
         is_staff |-> FALSE, is_superuser |-> FALSE, groups |-> <<>>]

InitialStores == {<<>>, <<John>>, <<John, Jane>>}

InitLocals ==
    /\ links = {}
    /\ pc = [p \in Procs |-> "idle"]
    /\ bag = [p \in Procs |-> NoBag]
    /\ name_id = [p \in Procs |-> <<>>]
    /\ user = [p \in Procs |-> NoUser]
    /\ created = [p \in Procs |-> FALSE]
    /\ todo = [p \in Procs |-> <<>>]
    /\ found = [p \in Procs |-> {}]
    /\ result = [p \in Procs |-> NoUser]
    /\ pre = [p \in Procs |-> NoPre]
    /\ consulted = [p \in Procs |-> {}]
    /\ prev = NoPrev
    /\ repeat = [p \in Procs |-> NoRepeat]

\* no provision call is running
InitProvision ==
    /\ ppc = "idle"
    /\ pobj = NoObject
    /\ pbag = NoBag
    /\ targets = {}
    /\ log = EmptyBag
    /\ saved = NoSaves
    /\ mutations = 0
    /\ pstart = NewUser(NoUser)
    /\ pagain = "no"

\* authorize has not been called
InitAuthorize ==
    /\ idp = IdpNone
    /\ classref = ClassrefNone
    /\ outcome = "none"

\* one request per thread, served concurrently
ConcSettings == [PROVISION : BOOLEAN,
                 TRANSIENT_FEDERATION_ATTRIBUTE : {NoAttr},
                 LOOKUP_BY_ATTRIBUTES : {NoLookup, ByUsername},
                 USERNAME_TEMPLATE : {TplDefault, TplMalformed},
                 REALM : {Realm}]

ConcBags == [name_id_format : {PERSISTENT}, name_id_content : {X32, Yy},
             issuer : {Issuer1}, attributes : {NoAttributes, [k \in {"email"} |-> <<Va>>]}]

Init ==
    /\ users \in {<<>>, <<John>>}
    /\ nextId = Len(users) + 1
    /\ settings \in ConcSettings
    /\ InitLocals
    /\ groupTable = EmptyBag
    /\ InitProvision
    /\ InitAuthorize

Next ==
    \E p \in Procs :
        \/ \E b \in ConcBags : LookupUser(p, b)
        \/ AttrQuery(p)
        \/ CreateUser(p)
        \/ LinkUser(p)
        \/ DiscardUser(p)
        \/ FinishCreateUser(p)

Spec == Init /\ [][Next]_vars

\* requests served one after the other by a single thread; lines 184-186
\* need a second thread, so DiscardUser is no step of such a run
Worker == CHOOSE p \in Procs : TRUE

InitSeq ==
    /\ users \in InitialStores
    /\ nextId = Len(users) + 1
    /\ settings \in AllSettings
    /\ InitLocals
    /\ groupTable = EmptyBag
    /\ InitProvision
    /\ InitAuthorize

NextSeq ==
    \/ \E b \in Bags : LookupUser(Worker, b)
    \/ AttrQuery(Worker)
    \/ CreateUser(Worker)
    \/ LinkUser(Worker)
    \/ FinishCreateUser(Worker)
    \/ Return(Worker)

SpecSeq == InitSeq /\ [][NextSeq]_vars

\* lookups under every short list of sound and defective rules, PROVISION off
RuleSettings == [PROVISION : {FALSE},
                 TRANSIENT_FEDERATION_ATTRIBUTE : {NoAttr},
                 LOOKUP_BY_ATTRIBUTES : RuleLists,
                 USERNAME_TEMPLATE : {TplDefault},
                 REALM : {Realm}]

RuleBags == [name_id_format : {PERSISTENT}, name_id_content : {X32},
             issuer : {Issuer1},
             attributes : {[k \in {"email"} |-> v] : v \in {<<Va>>, <<Va, Vb>>}}]

InitRules ==
    /\ users \in InitialStores
    /\ nextId = Len(users) + 1
    /\ settings \in RuleSettings
    /\ InitLocals
    /\ groupTable = EmptyBag
    /\ InitProvision
    /\ InitAuthorize

NextRules ==
    \/ \E b \in RuleBags : LookupUser(Worker, b)
    \/ AttrQuery(Worker)
    \/ LinkUser(Worker)
    \/ Return(Worker)

SpecRules == InitRules /\ [][NextRules]_vars

\* one resolved user, provisioned login after login
Claimed(values) == [present |-> TRUE, values |-> values]
Unclaimed == [present |-> FALSE, values |-> <<>>]

Claims == [email : {Unclaimed, Claimed(<<Va>>)},
           first_name : {Unclaimed, Claimed(<<Va>>), Claimed(<<Y32>>)},
           is_superuser : {Unclaimed, Claimed(<<VTrue>>), Claimed(<<VFalse>>)},
           group : {Unclaimed, Claimed(<<GroupB, GroupC>>),
                    Claimed(<<GroupA, GroupD, GroupA>>)}]

AttributesOf(c) == [k \in {k \in DOMAIN c : c[k].present} |-> c[k].values]

ProvBags == {[name_id_format |-> PERSISTENT, name_id_content |-> X32,
              issuer |-> Issuer1, attributes |-> AttributesOf(c)] : c \in Claims}

ProvUsers ==
    {[John EXCEPT !.is_staff = f[1], !.is_superuser = f[2], !.groups = g] :
        f \in {<<FALSE, FALSE>>, <<TRUE, FALSE>>, <<TRUE, TRUE>>},
        g \in {EmptyBag, SetToBag({GroupA, GroupB, GroupC})}}

InitProv ==
    /\ users \in {<<row>> : row \in ProvUsers}
    /\ nextId = 2
    /\ settings \in ProvSettings
    /\ InitLocals
    /\ groupTable = SetToBag({GroupA, GroupB, GroupC})
    /\ InitProvision
    /\ InitAuthorize

NextProv ==
    \/ \E b \in ProvBags : ProvisionStart(1, b)
    \/ ProvisionAttribute
    \/ ProvisionSuperuser
    \/ ProvisionGroups
    \/ AddGroups
    \/ RemoveGroups
    \/ ProvisionReturn
    \/ ProvisionAgain

SpecProv == InitProv /\ [][NextProv]_vars

\* authorize, called with any idp and any class reference
Classrefs == {"ref1", "ref2"}

AuthSettings == [AUTHN_CLASSREF : {{}, {"ref1"}, {"ref1", "ref2"}}]

InitAuth ==
    /\ users \in InitialStores
    /\ nextId = Len(users) + 1
    /\ settings \in AuthSettings
    /\ InitLocals
    /\ groupTable = EmptyBag
    /\ InitProvision
    /\ InitAuthorize

NextAuth ==
    \E i \in {IdpNone, IdpEmpty, Idp5} :
        \E given \in {ClassrefNone, ClassrefUnset} \cup Classrefs \cup {"ref3"} :
            Authorize(i, given)

SpecAuth == InitAuth /\ [][NextAuth]_vars

----------------------------------------------------------------------------
(* Properties *)

Running(p) == pc[p] # "idle"
Done(p) == pc[p] = "done"

\* rows of a table under the key the call of p links
KeyRows(ls, p) == {l \in ls : l.issuer = bag[p].issuer /\ l.name_id = name_id[p]}

\* the call of p started before any link for its key existed
FirstTime(p) == Running(p) /\ name_id[p] # <<>> /\ KeyRows(pre[p].links, p) = {}

SameIdentity(p, q) == bag[p].issuer = bag[q].issuer /\ name_id[p] = name_id[q]

\* every call for the identity of p is a first-time call whose username renders
RaceFor(p) ==
    /\ settings.PROVISION
    /\ \A q \in Procs :
          Running(q) /\ SameIdentity(p, q) =>
              FirstTime(q) /\ ~UserCreationError(settings, bag[q])

\* C1: concurrent first-time calls for one (issuer, name_id), with PROVISION
\* enabled and a username template that renders, all return a user, and the
\* same one, whatever the interleaving.
C1_OneUserForAllCallers ==
    \A p \in Procs : \A q \in Procs :
        (Done(p) /\ Done(q) /\ FirstTime(p) /\ SameIdentity(p, q) /\ RaceFor(p))
            => (result[p] # NoUser /\ result[p] = result[q])

\* two calls for one identity both went as far as creating a user
C1_Witness ==
    \E p \in Procs : \E q \in Procs :
        /\ p # q /\ Done(p) /\ Done(q) /\ SameIdentity(p, q) /\ RaceFor(p)
        /\ created[p] /\ created[q]
        /\ result[p] # NoUser /\ result[p] = result[q]

\* C2: the link table never holds two rows for one (issuer, name_id).
C2_OneLinkPerIdentity ==
    \A l1 \in links : \A l2 \in links :
        (l1.issuer = l2.issuer /\ l1.name_id = l2.name_id) => l1 = l2

\* a call came to _link_user with its own user and found the row of another call
C2_Witness ==
    \E p \in Procs :
        /\ pc[p] = "discard"
        /\ KeyRows(links, p) # {}
        /\ \A l \in KeyRows(links, p) : l.user # user[p]

\* the call of p has changed nothing in the tables and allocated no user
Untouched(p) ==
    users = pre[p].users /\ links = pre[p].links /\ nextId = pre[p].nextId

\* C3: a call repeated at once with the same bag, PROVISION enabled, returns
\* what the first call returned, leaves as many users and links as it found,
\* and when it returns a user it has created none.
C3_RepeatSameUser ==
    \A p \in Procs :
        (Done(p) /\ repeat[p].valid /\ repeat[p].same /\ settings.PROVISION)
            => /\ result[p] = repeat[p].result
               /\ users = pre[p].users
               /\ links = pre[p].links
               /\ (result[p] # NoUser => nextId = pre[p].nextId)

\* the repeated call returns the user the first call provisioned
C3_Witness ==
    \E p \in Procs :
        /\ Done(p) /\ repeat[p].valid /\ repeat[p].same /\ settings.PROVISION
        /\ result[p] # NoUser /\ result[p] = repeat[p].result
        /\ users[result[p]].username # Va /\ users[result[p]].username # Vb

\* C4: PROVISION off, no link for the identity, no candidate from the
\* attribute lookup: the call returns None and changes neither table.
C4_NoProvisionNoChange ==
    \A p \in Procs :
        (Done(p) /\ ~settings.PROVISION /\ KeyRows(pre[p].links, p) = {}
                 /\ Cardinality(found[p]) # 1)
            => (result[p] = NoUser /\ Untouched(p))

\* a call for a linkable identity was refused at the PROVISION test
C4_Witness ==
    \E p \in Procs :
        /\ Done(p) /\ ~settings.PROVISION /\ name_id[p] # <<>>
        /\ KeyRows(pre[p].links, p) = {} /\ found[p] = {}
        /\ "PROVISION" \in consulted[p]
        /\ result[p] = NoUser

\* C5: more than one user matched by the attribute lookup: the call returns
\* None and creates neither a user nor a link, PROVISION on or off.
C5_AmbiguousIsRefused ==
    \A p \in Procs :
        (Done(p) /\ Cardinality(found[p]) > 1)
            => (result[p] = NoUser /\ users = pre[p].users /\ links = pre[p].links)

\* C6: a link exists for the identity: the call returns its user, writes
\* nothing, and reads neither LOOKUP_BY_ATTRIBUTES nor PROVISION.
C6_LinkedIsReadOnly ==
    \A p \in Procs :
        (Done(p) /\ KeyRows(pre[p].links, p) # {})
            => /\ \E l \in KeyRows(pre[p].links, p) : result[p] = l.user
               /\ Untouched(p)
               /\ consulted[p] \cap {"LOOKUP_BY_ATTRIBUTES", "PROVISION"} = {}

\* a call found the link an earlier call had made
C6_Witness ==
    \E p \in Procs :
        /\ Done(p) /\ KeyRows(pre[p].links, p) # {}
        /\ result[p] # NoUser
        /\ settings.PROVISION /\ settings.LOOKUP_BY_ATTRIBUTES # NoLookup

\* the federation attribute of a transient login is unusable
NoFederationValue(p) ==
    /\ bag[p].name_id_format = TRANSIENT
    /\ \/ settings.TRANSIENT_FEDERATION_ATTRIBUTE = NoAttr
       \/ settings.TRANSIENT_FEDERATION_ATTRIBUTE \notin DOMAIN bag[p].attributes
       \/ Len(bag[p].attributes[settings.TRANSIENT_FEDERATION_ATTRIBUTE]) # 1

\* C7: a transient login whose federation attribute is not configured, absent,
\* empty or multi-valued returns None and creates nothing, even with PROVISION.
C7_TransientNeedsOneValue ==
    \A p \in Procs :
        (Done(p) /\ NoFederationValue(p)) => (result[p] = NoUser /\ Untouched(p))

\* a transient login with two values was refused although PROVISION is on
C7_Witness ==
    \E p \in Procs :
        /\ Done(p) /\ NoFederationValue(p) /\ settings.PROVISION
        /\ settings.TRANSIENT_FEDERATION_ATTRIBUTE = "email"
        /\ "email" \in DOMAIN bag[p].attributes
        /\ Len(bag[p].attributes["email"]) = 2
        /\ result[p] = NoUser

\* the linking key the identity of a bag calls for
LinkingKey(b) ==
    IF b.name_id_format = TRANSIENT
    THEN b.attributes[settings.TRANSIENT_FEDERATION_ATTRIBUTE][1]
    ELSE b.name_id_content

\* C8: the link a call creates is keyed by the single federation value for a
\* transient login and by name_id_content otherwise, and a transient login
\* that follows one with the same federation value and issuer under another
\* name_id_content resolves to the same user.
C8_LinkingKey ==
    \A p \in Procs :
        Done(p) =>
            /\ \A l \in links \ pre[p].links :
                  l.issuer = bag[p].issuer /\ l.name_id = LinkingKey(bag[p])
            /\ (repeat[p].valid /\ repeat[p].twin) => result[p] = repeat[p].result

\* the second transient login is given the user the first one was linked to
C8_Witness ==
    \E p \in Procs :
        /\ Done(p) /\ repeat[p].valid /\ repeat[p].twin
        /\ result[p] # NoUser /\ result[p] = repeat[p].result
        /\ \E l \in links : l.user = result[p] /\ l.name_id = bag[p].attributes["email"][1]

\* C9: no link for the identity and exactly one candidate: the call returns
\* the candidate and links it, PROVISION on or off, creates no user and leaves
\* every user row as it was.
C9_CandidateIsLinked ==
    \A p \in Procs :
        (Done(p) /\ KeyRows(pre[p].links, p) = {} /\ Cardinality(found[p]) = 1)
            => /\ result[p] \in found[p]
               /\ links = pre[p].links \cup
                     {[issuer |-> bag[p].issuer, name_id |-> name_id[p], user |-> result[p]]}
               /\ users = pre[p].users
               /\ nextId = pre[p].nextId

\* John is linked by a call made with PROVISION off
C9_Witness ==
    \E p \in Procs :
        /\ Done(p) /\ KeyRows(pre[p].links, p) = {} /\ Cardinality(found[p]) = 1
        /\ ~settings.PROVISION
        /\ result[p] \in found[p]
        /\ KeyRows(links, p) # {}

\* users with a row in a link table
Linked(ls) == {l.user : l \in ls}

\* C10: in a sequential run the attribute lookup never selects a user that
\* has a link: none is among the users found, none is returned or linked as
\* the candidate, and no user ever holds two links.
C10_LinkedNeverSelected ==
    /\ \A p \in Procs :
          /\ found[p] \cap Linked(pre[p].links) = {}
          /\ (Running(p) /\ ~created[p]) => user[p] \notin Linked(pre[p].links)
    /\ \A l1 \in links : \A l2 \in links : l1.user = l2.user => l1 = l2

\* a linked user's username equals the value looked for and yet another
\* identity's call went past the lookup without it
C10_Witness ==
    \E p \in Procs :
        /\ pc[p] \in {"create", "done"}
        /\ settings.LOOKUP_BY_ATTRIBUTES = ByUsername
        /\ "LOOKUP_BY_ATTRIBUTES" \in consulted[p]
        /\ \E u \in Linked(pre[p].links) :
              /\ Truthy(bag[p], "email")
              /\ bag[p].attributes["email"][1] = pre[p].users[u].username
        /\ found[p] = {}

\* USERNAME_TEMPLATE gives no username for a bag: it does not render, or it
\* renders to the empty string
NoUsername(b) ==
    \/ ~settings.USERNAME_TEMPLATE.wellformed
    \/ \E i \in 1..Len(settings.USERNAME_TEMPLATE.parts) :
           PartRaises(settings.USERNAME_TEMPLATE.parts[i], b)
    \/ Format(settings.USERNAME_TEMPLATE.parts, b, settings.REALM) = <<>>

\* C11: a call that created a user for whom no username can be produced
\* returns None, and the user it created is gone: the user table is the one
\* the call started from.
C11_NoUsernameNoUser ==
    \A p \in Procs :
        (Done(p) /\ created[p] /\ NoUsername(bag[p]))
            => /\ result[p] = NoUser
               /\ user[p] \notin DOMAIN users
               /\ users = pre[p].users

\* the template rendered to the empty string and the created user was deleted
C11_Witness ==
    \E p \in Procs :
        /\ Done(p) /\ created[p]
        /\ settings.USERNAME_TEMPLATE = TplEmpty
        /\ nextId = pre[p].nextId + 1
        /\ result[p] = NoUser /\ users = pre[p].users

\* USERNAME_TEMPLATE rendered against realm and bag, before any truncation
Rendered(b) == Format(settings.USERNAME_TEMPLATE.parts, b, settings.REALM)

\* the call of p created a user, won the link with it and returned it
CreatedAndWon(p) ==
    /\ Done(p) /\ FirstTime(p) /\ settings.PROVISION
    /\ created[p] /\ result[p] # NoUser /\ result[p] = user[p]

\* C12: a first-time call with PROVISION enabled that created the user and won
\* the link: the returned user's username is the first 30 characters of the
\* rendered USERNAME_TEMPLATE, not the placeholder, and the only link of the
\* identity points at that user.
C12_ProvisionedUsername ==
    \A p \in Procs :
        CreatedAndWon(p) =>
            /\ result[p] \in DOMAIN users
            /\ Len(users[result[p]].username) <= UsernameMaxLen
            /\ \A i \in 1..Len(users[result[p]].username) :
                  users[result[p]].username[i] = Rendered(bag[p])[i]
            /\ Len(Rendered(bag[p])) <= UsernameMaxLen
                  => users[result[p]].username = Rendered(bag[p])
            /\ Len(Rendered(bag[p])) > UsernameMaxLen
                  => Len(users[result[p]].username) = UsernameMaxLen
            /\ users[result[p]].username # Placeholder(result[p])
            /\ KeyRows(links, p) =
                  {[issuer |-> bag[p].issuer, name_id |-> name_id[p], user |-> result[p]]}

\* a 37 character rendering was cut to its first 30, while another call for
\* the same identity lost the link
C12_Witness ==
    \E p \in Procs : \E q \in Procs :
        /\ CreatedAndWon(p)
        /\ Len(Rendered(bag[p])) = 37
        /\ users[result[p]].username = Str("x", 30)
        /\ q # p /\ Done(q) /\ SameIdentity(p, q) /\ created[q] /\ result[q] = result[p]

----------------------------------------------------------------------------
(* Properties of provision *)

\* the sub-steps of the running call that have returned
AttributeSynced == ppc \in {"superuser", "groups", "add", "remove", "done"}
SuperuserSynced == ppc \in {"groups", "add", "remove", "done"}
GroupsSynced == ppc = "done"

\* the row of the user the call provisions
Provisioned == users[pobj.pk]

\* the group names the bag claims
ClaimedGroups ==
    {pbag.attributes[settings.GROUP_ATTRIBUTE][i] :
        i \in 1..Len(pbag.attributes[settings.GROUP_ATTRIBUTE])}

\* C13: after provision_groups, GROUP_ATTRIBUTE in the bag and CREATE_GROUP
\* enabled, the user holds exactly the claimed groups, each once, whatever the
\* groups held before, on the first login and on every later one.
C13_GroupsAreTheClaimed ==
    (GroupsSynced /\ settings.CREATE_GROUP
        /\ settings.GROUP_ATTRIBUTE \in DOMAIN pbag.attributes)
        => /\ BagToSet(Provisioned.groups) = ClaimedGroups
           /\ \A g \in BagToSet(Provisioned.groups) : CopiesIn(g, Provisioned.groups) = 1

\* held A, B and C, claimed B and C: A is gone, B and C are kept
C13_Witness ==
    /\ GroupsSynced /\ settings.CREATE_GROUP
    /\ settings.GROUP_ATTRIBUTE = "group"
    /\ "group" \in DOMAIN pbag.attributes
    /\ BagToSet(pstart.groups) = {GroupA, GroupB, GroupC}
    /\ pbag.attributes["group"] = <<GroupB, GroupC>>
    /\ BagToSet(Provisioned.groups) = {GroupB, GroupC}

\* some entry of SUPERUSER_MAPPING names an attribute of the bag that carries
\* one of the entry's accepted values
SomeEntryMatches ==
    \E e \in settings.SUPERUSER_MAPPING.entries :
        /\ e.key \in DOMAIN pbag.attributes
        /\ \E i \in 1..Len(pbag.attributes[e.key]) :
              \/ ~e.islist /\ pbag.attributes[e.key][i] = e.values
              \/ e.islist /\ \E j \in 1..Len(e.values) : pbag.attributes[e.key][i] = e.values[j]

NonEmptyMapping ==
    settings.SUPERUSER_MAPPING.given /\ settings.SUPERUSER_MAPPING.entries # {}

\* C14: after provision_superuser with a non-empty SUPERUSER_MAPPING, is_staff
\* and is_superuser are both true when some entry matches the bag and both
\* false otherwise, in every order of iteration and whatever the flags were.
C14_FlagsFollowTheMapping ==
    (SuperuserSynced /\ NonEmptyMapping)
        => /\ Provisioned.is_staff = SomeEntryMatches
           /\ Provisioned.is_superuser = SomeEntryMatches
           /\ pobj.row.is_staff = SomeEntryMatches
           /\ pobj.row.is_superuser = SomeEntryMatches

\* two entries, only the one for email matches; a user who was staff only is
\* now both
C14_Witness ==
    /\ SuperuserSynced /\ settings.SUPERUSER_MAPPING = SuperTwo
    /\ "is_superuser" \in DOMAIN pbag.attributes
    /\ pbag.attributes["is_superuser"] = <<VFalse>>
    /\ "email" \in DOMAIN pbag.attributes
    /\ pstart.is_staff /\ ~pstart.is_superuser
    /\ Provisioned.is_staff /\ Provisioned.is_superuser

\* C15: SUPERUSER_MAPPING unset or empty: provision_superuser leaves both
\* flags as they were and does not save the user.
C15_NoMappingNoChange ==
    (SuperuserSynced /\ ~NonEmptyMapping)
        => /\ Provisioned.is_staff = pstart.is_staff
           /\ Provisioned.is_superuser = pstart.is_superuser
           /\ pobj.row.is_staff = pstart.is_staff
           /\ pobj.row.is_superuser = pstart.is_superuser
           /\ ~saved.superuser

\* a superuser keeps both flags under an empty mapping, with a bag that
\* claims nothing
C15_Witness ==
    /\ SuperuserSynced /\ settings.SUPERUSER_MAPPING = SuperEmpty
    /\ "is_superuser" \notin DOMAIN pbag.attributes
    /\ pstart.is_staff /\ pstart.is_superuser
    /\ Provisioned.is_staff /\ Provisioned.is_superuser

\* an entry of ATTRIBUTE_MAPPING that can be synchronised
WellFormed(e) ==
    /\ e.field \in UserFields
    /\ e.tpl.wellformed
    /\ \A i \in 1..Len(e.tpl.parts) : ~PartRaises(e.tpl.parts[i], pbag)

\* the value an entry renders to
RenderedValue(e) == Format(e.tpl.parts, pbag, settings.REALM)

\* C16: a malformed entry of ATTRIBUTE_MAPPING (template that does not
\* render, target that is no field) is skipped: provision raises nothing,
\* every other mapped field is synchronised, and the superuser and the group
\* sync run.
C16_MalformedEntrySkipped ==
    /\ ppc # "raised"
    /\ AttributeSynced =>
          \A e \in settings.ATTRIBUTE_MAPPING :
              WellFormed(e) =>
                  \A i \in 1..Len(Provisioned[e.field]) :
                      Provisioned[e.field][i] = RenderedValue(e)[i]

\* C17: provision_attribute stores the first max_length characters of a
\* rendered value longer than the field's max_length, and a value that is not
\* longer as it is.
C17_StoredValueIsCut ==
    AttributeSynced =>
        \A e \in settings.ATTRIBUTE_MAPPING :
            WellFormed(e) =>
                IF e.field = "first_name" /\ Len(RenderedValue(e)) > FirstNameMaxLen
                THEN /\ Len(Provisioned[e.field]) = FirstNameMaxLen
                     /\ \A i \in 1..FirstNameMaxLen :
                           Provisioned[e.field][i] = RenderedValue(e)[i]
                ELSE Provisioned[e.field] = RenderedValue(e)

\* a first name of 32 characters is stored as its first 30
C17_Witness ==
    /\ AttributeSynced /\ settings.ATTRIBUTE_MAPPING = MapBoth
    /\ "first_name" \in DOMAIN pbag.attributes
    /\ pbag.attributes["first_name"] = <<Y32>>
    /\ Provisioned.first_name = Str("y", 30)
    /\ "email" \in DOMAIN pbag.attributes
    /\ Provisioned.email = Va

\* the records of a log that tell of a change
MutationKinds ==
    {"set field", "flags added", "flags removed", "adding group", "removing group"}

MutationRecords(l) == [r \in {x \in BagToSet(l) : x.kind \in MutationKinds} |-> l[r]]

\* C20: at every point of a provision call the log holds one mutation record
\* for each change made so far to a field, to the pair of flags or to the
\* user's groups; a call that changes nothing logs no mutation record.
C20_OneRecordPerMutation ==
    BagCardinality(MutationRecords(log)) = mutations

\* one call changed two fields and the flags, added a group and removed three
C20_Witness ==
    /\ ppc = "done"
    /\ mutations = 7
    /\ BagCardinality(MutationRecords(log)) = 7
    /\ \E r \in BagToSet(log) : r.kind = "removing group"
    /\ \E r \in BagToSet(log) : r.kind = "adding group"

----------------------------------------------------------------------------
(* Properties of authorize *)

\* AUTHN_CLASSREF is configured and the given reference is missing or is not
\* one of the allowed ones
ClassrefRefused ==
    /\ settings.AUTHN_CLASSREF # {}
    /\ \/ classref \in {ClassrefNone, ClassrefUnset}
       \/ classref \notin settings.AUTHN_CLASSREF

\* C18: with an idp, authorize raises PermissionDenied exactly when
\* AUTHN_CLASSREF is configured and the class reference of the assertion is
\* missing or not allowed, and returns True otherwise; no call changes users,
\* links or settings.
C18_DeniedOnClassref ==
    [][/\ idp' = Idp5 => /\ ClassrefRefused' => outcome' = "PermissionDenied"
                         /\ ~ClassrefRefused' => outcome' = "True"
       /\ UNCHANGED <<users, links, settings>>]_vars

\* a reference outside the allowed set was refused
C18_Witness ==
    /\ idp = Idp5 /\ outcome = "PermissionDenied"
    /\ settings.AUTHN_CLASSREF = {"ref1", "ref2"} /\ classref = "ref3"

\* C19, as claimed: without an idp (None or empty) authorize raises
\* PermissionDenied.
C19_NoIdpRaises ==
    (outcome # "none" /\ idp \in {IdpNone, IdpEmpty}) => outcome = "PermissionDenied"

\* C19, amended: without an idp (None or empty) authorize returns False and
\* raises nothing, for every bag.
C19_NoIdpReturnsFalse ==
    (outcome # "none" /\ idp \in {IdpNone, IdpEmpty}) => outcome = "False"

\* an empty idp was turned away although the class reference was allowed
C19_Witness ==
    /\ idp = IdpEmpty /\ outcome = "False"
    /\ settings.AUTHN_CLASSREF = {"ref1"} /\ classref = "ref1"

----------------------------------------------------------------------------
(* Properties of the attribute lookup *)

\* a rule without defect: a dict that names a field of the user model and a
\* SAML attribute
SoundRule(line) ==
    /\ line.isdict
    /\ line.user_field \in {"username", "email", "first_name"}
    /\ line.saml_attribute # Missing

\* the lookup of the call of p has returned
LookedUp(p) ==
    /\ pc[p] \in {"link", "create", "done"}
    /\ "LOOKUP_BY_ATTRIBUTES" \in consulted[p]

\* the unlinked users some value of the bag selects under the sound rules of
\* a list, the defective ones left out
FoundBySoundRules(lines, b, us, ls) ==
    {u \in DOMAIN us :
        /\ \A l \in ls : l.user # u
        /\ \E i \in 1..Len(lines) :
              /\ SoundRule(lines[i])
              /\ lines[i].saml_attribute \in DOMAIN b.attributes
              /\ \E j \in 1..Len(b.attributes[lines[i].saml_attribute]) :
                    us[u][lines[i].user_field] = b.attributes[lines[i].saml_attribute][j]}

\* C21: a defective rule of LOOKUP_BY_ATTRIBUTES is skipped and the other
\* rules are still evaluated: the users found under a list are those found
\* under the list without its defective rules, and the call goes on with the
\* candidate they give.
C21_DefectiveRulesSkipped ==
    \A p \in Procs :
        (LookedUp(p) /\ settings.LOOKUP_BY_ATTRIBUTES.islist)
            => /\ found[p] = FoundBySoundRules(settings.LOOKUP_BY_ATTRIBUTES.lines, bag[p],
                                               pre[p].users, pre[p].links)
               /\ (pc[p] = "done" /\ Cardinality(found[p]) = 1) => result[p] \in found[p]

\* John was found by the rule that follows two defective ones
C21_Witness ==
    \E p \in Procs :
        /\ pc[p] = "done" /\ LookedUp(p)
        /\ settings.LOOKUP_BY_ATTRIBUTES.islist
        /\ settings.LOOKUP_BY_ATTRIBUTES.lines
              = <<NotADict, UnknownUserField, Rule("username", "email", FALSE)>>
        /\ found[p] = {1} /\ result[p] = 1

\* two characters that are one letter, in whatever case
SameLetter(c, d) ==
    \/ c = d
    \/ {c, d} = {"a", "A"}
    \/ {c, d} = {"b", "B"}

\* two strings that differ at most in the case of their letters
SameButCase(s, t) == Len(s) = Len(t) /\ \A i \in 1..Len(s) : SameLetter(s[i], t[i])

\* the values the bag of p carries for the attribute of a rule
RuleValues(p, line) ==
    IF line.saml_attribute \in DOMAIN bag[p].attributes
    THEN {bag[p].attributes[line.saml_attribute][i] :
             i \in 1..Len(bag[p].attributes[line.saml_attribute])}
    ELSE {}

\* LOOKUP_BY_ATTRIBUTES is a single sound rule
OneRule ==
    /\ settings.LOOKUP_BY_ATTRIBUTES.islist
    /\ Len(settings.LOOKUP_BY_ATTRIBUTES.lines) = 1
    /\ SoundRule(settings.LOOKUP_BY_ATTRIBUTES.lines[1])

\* C22: under a rule with ignore_case the unlinked users found are those
\* whose field equals a value of the attribute up to the case of its letters;
\* under the same rule without the flag, those whose field equals a value
\* exactly.
C22_IgnoreCase ==
    \A p \in Procs :
        (LookedUp(p) /\ OneRule) =>
            LET line == settings.LOOKUP_BY_ATTRIBUTES.lines[1]
            IN found[p] =
                 {u \in DOMAIN pre[p].users :
                     /\ \A l \in pre[p].links : l.user # u
                     /\ \E v \in RuleValues(p, line) :
                           IF line.ignore_case
                           THEN SameButCase(pre[p].users[u][line.user_field], v)
                           ELSE pre[p].users[u][line.user_field] = v}

\* the value "A" found John, whose username is "a", under the rule with the flag
C22_Witness ==
    \E p \in Procs :
        /\ pc[p] = "done" /\ LookedUp(p)
        /\ settings.LOOKUP_BY_ATTRIBUTES = ByUsernameAnyCase
        /\ "email" \in DOMAIN bag[p].attributes
        /\ bag[p].attributes["email"] = <<VA>>
        /\ 1 \in found[p] /\ pre[p].users[1].username = Va
        /\ result[p] = 1

----------------------------------------------------------------------------
(* Properties of concurrent resolutions *)

\* the calls for the identity of the call of p
Callers(p) == {q \in Procs : Running(q) /\ SameIdentity(p, q)}

\* PROVISION is on and the calls for the identity of p, all of them first-time
\* calls, have all returned
RaceOver(p) ==
    /\ Running(p) /\ name_id[p] # <<>> /\ settings.PROVISION
    /\ \A q \in Callers(p) : Done(q) /\ FirstTime(q)

\* the users these calls created that are still in the table
CreatedBy(p) == {user[q] : q \in {r \in Callers(p) : created[r]}} \cap DOMAIN users

\* the users created by these calls that are left are linked and named
NoSpeculativeUserLeft(p) ==
    /\ \A q \in Callers(p) :
          (created[q] /\ result[q] # user[q]) => user[q] \notin DOMAIN users
    /\ \A u \in CreatedBy(p) :
          /\ users[u].username # Placeholder(u)
          /\ u \in Linked(links)

\* C23, as claimed: when the concurrent first-time calls for one identity
\* have returned, exactly one user created by them is in the table, the
\* losers' users are deleted and no unlinked placeholder user is left.
C23_ExactlyOneCreated ==
    \A p \in Procs :
        RaceOver(p) => (Cardinality(CreatedBy(p)) = 1 /\ NoSpeculativeUserLeft(p))

\* C23, amended: at most one user created by these calls is in the table,
\* and exactly one when every call created a user and the username template
\* renders; the losers' users are deleted and no unlinked placeholder user is
\* left.
C23_AtMostOneCreated ==
    \A p \in Procs :
        RaceOver(p) =>
            /\ Cardinality(CreatedBy(p)) <= 1
            /\ (\A q \in Callers(p) : created[q] /\ ~NoUsername(bag[q]))
                  => Cardinality(CreatedBy(p)) = 1
            /\ NoSpeculativeUserLeft(p)

\* two calls created a user each; the loser's is gone, the winner's is named
C23_Witness ==
    \E p \in Procs : \E q \in Procs :
        /\ p # q /\ RaceOver(p) /\ SameIdentity(p, q)
        /\ created[p] /\ created[q]
        /\ user[p] \in DOMAIN users /\ user[q] \notin DOMAIN users
        /\ CreatedBy(p) = {user[p]}
        /\ users[user[p]].username # Placeholder(user[p])

\* this step is the rollback of the call that created the user of row l
RollbackOf(l) ==
    \E p \in Procs :
        /\ pc[p] = "finish" /\ pc'[p] = "done"
        /\ created[p] /\ user[p] = l.user
        /\ NoUsername(bag[p])

\* the rows of the identity the call of p has after this step
RowsBefore(p) == {l \in links : l.issuer = bag'[p].issuer /\ l.name_id = name_id'[p]}

\* C24: a link row stays as it is in every step but the rollback of the call
\* that created its user, and a call that reads the table when it holds a row
\* for its identity returns the user of that row.
C24_LinksStay ==
    [][/\ \A l \in links : l \in links' \/ RollbackOf(l)
       /\ \A p \in Procs :
             /\ (pc[p] = "idle" /\ pc'[p] # "idle") =>
                   \A l \in RowsBefore(p) : pc'[p] = "done" /\ result'[p] = l.user
             /\ (pc[p] = "link" /\ pc'[p] # "link") =>
                   \A l \in RowsBefore(p) : result'[p] = l.user
             /\ (pc[p] = "discard" /\ pc'[p] = "done") => result'[p] = result[p]
      ]_vars

\* a call that began when the link existed has returned its user, and the
\* link is still there
C24_Witness ==
    \E p \in Procs : \E l \in links :
        /\ Done(p) /\ ~created[p]
        /\ l \in pre[p].links
        /\ l.issuer = bag[p].issuer /\ l.name_id = name_id[p]
        /\ result[p] = l.user

\* C26: every link row references a user of the user table, in every state,
\* those after a failed username derivation and after a lost race included.
C26_NoDanglingLink == \A l \in links : l.user \in DOMAIN users

\* one call won the link, failed the derivation and deleted its user; the
\* other lost the race and deleted its own
C26_Witness ==
    \E p \in Procs : \E q \in Procs :
        /\ p # q /\ Done(p) /\ Done(q) /\ SameIdentity(p, q)
        /\ created[p] /\ created[q] /\ user[p] # user[q]
        /\ NoUsername(bag[p]) /\ result[p] = NoUser /\ result[q] = user[p]
        /\ user[p] \notin DOMAIN users /\ user[q] \notin DOMAIN users
        /\ KeyRows(pre[p].links, p) = {} /\ KeyRows(links, p) = {}

\* the calls of p and q, for two identities without link, have returned and
\* the attribute lookup of each found the same single user, unlinked
SameUnlinkedMatch(p, q) ==
    /\ p # q /\ Done(p) /\ Done(q)
    /\ FirstTime(p) /\ FirstTime(q) /\ ~SameIdentity(p, q)
    /\ found[p] = found[q] /\ Cardinality(found[p]) = 1
    /\ found[p] \cap Linked(pre[p].links \cup pre[q].links) = {}

\* C28, as claimed: when the attribute lookups of two calls for two
\* identities match the same unlinked user, that user ends with at most one
\* link.
C28_OneIdentityPerMatchedUser ==
    \A p \in Procs : \A q \in Procs :
        SameUnlinkedMatch(p, q) =>
            \A u \in found[p] : Cardinality({l \in links : l.user = u}) <= 1

\* the call of p, a first-time call, linked the user it created, failed the
\* username derivation and deleted that user
RolledBack(p) ==
    /\ Done(p) /\ FirstTime(p) /\ created[p]
    /\ NoUsername(bag[p]) /\ result[p] = NoUser
    /\ user[p] \notin DOMAIN users

\* C29, as claimed: no other first-time call for the identity returns the user
\* that the winner of the link deleted after its username derivation failed.
C29_DeletedUserNotReturned ==
    \A p \in Procs : \A q \in Procs :
        (p # q /\ RolledBack(p) /\ Done(q) /\ FirstTime(q) /\ SameIdentity(p, q))
            => result[q] # user[p]

----------------------------------------------------------------------------
(* Properties of provision, continued *)

\* GROUP_ATTRIBUTE is not configured, or the bag has no such key
GroupAttributeAbsent ==
    \/ settings.GROUP_ATTRIBUTE = NoAttr
    \/ settings.GROUP_ATTRIBUTE \notin ReservedKeys \cup DOMAIN pbag.attributes

\* the call is in provision_groups or past it
InProvisionGroups == ppc \in {"groups", "add", "remove", "done"}

\* C30: when GROUP_ATTRIBUTE is not configured or is not a key of the bag,
\* the user holds during and after provision_groups the group rows held
\* before the call, and no step of provision_groups changes the group table.
C30_NoGroupAttributeNoChange ==
    /\ []((InProvisionGroups /\ GroupAttributeAbsent) =>
             Provisioned.groups = pstart.groups)
    /\ [][(InProvisionGroups /\ GroupAttributeAbsent) => groupTable' = groupTable]_vars

\* GROUP_ATTRIBUTE is configured, the bag does not have it, and the user has
\* kept the groups held before the call
C30_Witness ==
    /\ ppc = "done"
    /\ settings.GROUP_ATTRIBUTE = "group" /\ settings.CREATE_GROUP
    /\ "group" \notin DOMAIN pbag.attributes
    /\ pstart.groups # EmptyBag
    /\ Provisioned.groups = pstart.groups

\* the bag has the configured group attribute
GroupsAreClaimed ==
    /\ settings.GROUP_ATTRIBUTE # NoAttr
    /\ settings.GROUP_ATTRIBUTE \in DOMAIN pbag.attributes

\* the names the bag claims that are rows of the group table
ClaimedAndExisting == {g \in ClaimedGroups : CopiesIn(g, groupTable) > 0}

\* C27: with CREATE_GROUP disabled no step changes the group table, and
\* after provision_groups the user holds exactly the claimed names that are
\* groups, each once; with CREATE_GROUP enabled the step that resolves the
\* names leaves every claimed name in the table exactly once, inserting it when
\* it was not there, and leaves the other rows as they were.
C27_GroupCreation ==
    /\ [][~settings.CREATE_GROUP => groupTable' = groupTable]_vars
    /\ []((GroupsSynced /\ GroupsAreClaimed /\ ~settings.CREATE_GROUP) =>
             Provisioned.groups = SetToBag(ClaimedAndExisting))
    /\ [][(ppc = "groups" /\ GroupsAreClaimed /\ settings.CREATE_GROUP) =>
             \A g \in BagToSet(groupTable') \cup BagToSet(groupTable) \cup ClaimedGroups :
                 CopiesIn(g, groupTable') =
                     IF g \in ClaimedGroups THEN 1 ELSE CopiesIn(g, groupTable)]_vars

\* CREATE_GROUP is off, the bag claims a name that is no group and one that
\* is: the user, who held three groups, holds the one that is claimed
C27_Witness ==
    /\ GroupsSynced /\ GroupsAreClaimed /\ ~settings.CREATE_GROUP
    /\ GroupD \in ClaimedGroups /\ CopiesIn(GroupD, groupTable) = 0
    /\ BagCardinality(pstart.groups) = 3
    /\ Provisioned.groups = SetToBag({GroupA})

\* the call has changed nothing so far: no field or flag of the object, no
\* row of the tables, no save, no mutation record
NothingChanged ==
    /\ mutations = 0
    /\ saved = NoSaves
    /\ MutationRecords(log) = EmptyBag
    /\ Provisioned = pstart
    /\ FieldsChanged(pstart, pobj.row) = {}
    /\ pobj.row.is_staff = pstart.is_staff
    /\ pobj.row.is_superuser = pstart.is_superuser

\* C25, as claimed: a provision call that repeats the call before it, with
\* the same user, settings and bag, changes nothing at any point; and
\* provision_attribute saves the user only if some field changed.
C25_ProvisionIdempotent ==
    /\ pagain # "no" => NothingChanged
    /\ saved.attribute => FieldsChanged(pstart, pobj.row) # {}

----------------------------------------------------------------------------
(* Properties of concurrent resolutions: deletions *)

\* this step is a delete by the call that created user u in that call
DeletedByCreator(u) ==
    \E p \in Procs :
        /\ pc[p] \in {"discard", "finish"} /\ pc'[p] = "done"
        /\ created[p] /\ user[p] = u
        /\ u \notin DOMAIN pre[p].users

\* C31: a step removes a user from the table only if it is a delete by the
\* call that created that user; the user a call took from the attribute
\* lookup is in the table at every point of the call and after it, a lost
\* link race and a failed username derivation included.
C31_OnlyOwnUserDeleted ==
    /\ [][\A u \in DOMAIN users : u \in DOMAIN users' \/ DeletedByCreator(u)]_vars
    /\ [](\A p \in Procs :
             (Running(p) /\ user[p] # NoUser /\ ~created[p]) =>
                 (user[p] \in DOMAIN pre[p].users /\ user[p] \in DOMAIN users))

\* the call of p matched an existing user by attributes and lost the link
\* race to the call of q, whose user was created and then deleted for want
\* of a username: the matched user is still there
C31_Witness ==
    \E p \in Procs : \E q \in Procs :
        /\ p # q /\ Done(p) /\ Done(q) /\ SameIdentity(p, q)
        /\ ~created[p] /\ user[p] \in found[p] /\ result[p] # user[p]
        /\ created[q] /\ result[p] = user[q] /\ user[q] \notin DOMAIN users
        /\ user[p] \in DOMAIN users

====
